---- MODULE Spec2Model ----
(***************************************************************************)
(* Model of the Idempotency-Key middleware (package idempotency).          *)
(*                                                                         *)
(*   storage.go      Storage interface, memoryStorage, redisStorage        *)
(*   idempotency.go  state.Verify: the per-request handler                 *)
(*   idempotency_test.go  incompleteStorage (memoryStorage whose Complete  *)
(*                        does nothing)                                    *)
(*                                                                         *)
(* Every request is one run of the closure returned by Verify.  Its store  *)
(* calls (Get, Add, Complete) are atomic steps (a mutex section, or one    *)
(* Redis command); between them any other request may run.                *)
(***************************************************************************)
EXTENDS Integers, Sequences, FiniteSets, TLC

\* ------------------------------------------------------------------ bounds

\* Number of requests the server receives.
MaxReq == 3

\* redisStorage.expiry, in clock ticks.
Expiry == 2

\* The number of direct calls of the store's methods that are followed.
MaxCalls == 4

Reqs == 1..MaxReq

\* Idempotency-Key header values a client sends; NoHeader is what
\* r.Header.Get returns when the header is missing.
\* Keys are opaque and interchangeable, so they are taken into use in the
\* order of KeyOrder: a request carries a key already in use or the next one.
KeyOrder == <<"deadbeef", "cafe">>
Keys == {KeyOrder[i] : i \in DOMAIN KeyOrder}
NoHeader == ""
Headers == Keys \cup {NoHeader}

\* ------------------------------------------------------- program constants

StatusBadRequest == 400
StatusConflict == 409
StatusInternalServerError == 500

\* Redis' TTL of a key that has no expiry.
NoTTL == -1

KeyPrefix == "idemp:"

\* ------------------------------------------------------------------ values

\* *RequestStatus: the nil pointer, or a RequestStatus{InProcess: b}.
NilStatus == [nil |-> TRUE, InProcess |-> FALSE]
RequestStatus(b) == [nil |-> FALSE, InProcess |-> b]

\* error values returned by the stores.
NilErr == "nil"
ErrSet == "failed to set the key in redis"
ErrExists == "the key already exists in redis"
ErrGet == "failed to get the key from redis"
ErrUpdate == "failed to update the key in redis"

\* What a caller of the Storage interface can test on an error result:
\* the interface returns a plain error, Verify tests err != nil.
IsErr(err) == err # NilErr

\* The outcome classes of a Storage call: Add and Complete return only an
\* error, of no exported type or sentinel value, so a call either succeeded
\* or failed.
OutcomeClass(err) == IF IsErr(err) THEN "error" ELSE "ok"

\* ------------------------------------------------------------ memoryStorage

\* memoryStorage.mu.  Every method takes it on entry (Lock, or RLock in Get)
\* and releases it on return (defer Unlock / RUnlock); a method is entered
\* only when the lock is free.
Free == "free"
Held == "held"
Lock(l) == Held

\* The deferred Unlock left out: the lock stays held after the method.
UnlockForgotten(l) == l

Unlock(l) == Free

\* make(map[string]*RequestStatus): a map over every string a header can hold,
\* NoHeader included; a key without an entry reads as nil.
NewMemoryStorage == [k \in Headers |-> NilStatus]

memoryStorageAdd(m, key) ==
    [err |-> NilErr, m |-> [m EXCEPT ![key] = RequestStatus(TRUE)]]

memoryStorageGet(m, key) ==
    [status |-> m[key], err |-> NilErr]

\* Complete that stores the wrong flag.
memoryStorageCompleteInProcess(m, key) ==
    [err |-> NilErr, m |-> [m EXCEPT ![key] = RequestStatus(TRUE)]]

memoryStorageComplete(m, key) ==
    [err |-> NilErr, m |-> [m EXCEPT ![key] = RequestStatus(FALSE)]]

\* The test's store: memoryStorage with Complete overridden to do nothing.
incompleteStorageComplete(m, key) ==
    [err |-> NilErr, m |-> m]

\* ------------------------------------------------------------- redisStorage

\* The Redis keyspace the client talks to: every key of the package is
\* stored under keyPrefix+key.
RedisKey(key) == KeyPrefix \o key
RedisKeys == {RedisKey(k) : k \in Headers}

NoEntry == [exists |-> FALSE, val |-> "", ttl |-> NoTTL]
EmptyRedis == [k \in RedisKeys |-> NoEntry]

\* SET key val EX expiry, without NX: sets whether or not the key exists.
SetOverwrite(db, k, val, expiry) ==
    [res |-> TRUE,
     db |-> [db EXCEPT ![k] = [exists |-> TRUE, val |-> val, ttl |-> expiry]]]

\* SET key val EX expiry NX: sets only when the key does not exist.
SetNX(db, k, val, expiry) ==
    IF db[k].exists
    THEN [res |-> FALSE, db |-> db]
    ELSE [res |-> TRUE,
          db |-> [db EXCEPT ![k] = [exists |-> TRUE, val |-> val, ttl |-> expiry]]]

\* SET key val XX KEEPTTL: overwrites only a key that exists.
SetIfExists(db, k, val) ==
    IF db[k].exists THEN [db EXCEPT ![k] = [@ EXCEPT !.val = val]] ELSE db

\* SET key val KEEPTTL: overwrites the value and keeps the time to live the
\* key has; a key that did not exist is created without one.
SetKeepTTL(db, k, val) ==
    [db EXCEPT ![k] = [exists |-> TRUE, val |-> val, ttl |-> db[k].ttl]]

\* One clock tick on the Redis server: every time to live runs down by one
\* and a key whose time to live reaches zero is deleted.
RedisTick(db) ==
    [k \in RedisKeys |->
        IF db[k].exists /\ db[k].ttl = 1 THEN NoEntry
        ELSE IF db[k].exists /\ db[k].ttl > 1
             THEN [db[k] EXCEPT !.ttl = db[k].ttl - 1]
             ELSE db[k]]

\* Add with the test of SetNX's result the wrong way round.
redisStorageAddInverted(db, key, fail) ==
    IF fail THEN [err |-> ErrSet, db |-> db]
    ELSE LET r == SetNX(db, RedisKey(key), "in-process", Expiry)
         IN  IF r.res THEN [err |-> ErrExists, db |-> r.db]
             ELSE [err |-> NilErr, db |-> r.db]

\* fail: the command did not reach the server or its reply was an error.
redisStorageAdd(db, key, fail) ==
    IF fail THEN [err |-> ErrSet, db |-> db]
    ELSE LET r == SetNX(db, RedisKey(key), "in-process", Expiry)
         IN  IF ~r.res THEN [err |-> ErrExists, db |-> db]
             ELSE [err |-> NilErr, db |-> r.db]

redisStorageGet(db, key, fail) ==
    IF fail THEN [status |-> NilStatus, err |-> ErrGet]
    ELSE IF ~db[RedisKey(key)].exists THEN [status |-> NilStatus, err |-> NilErr]
    ELSE [status |-> RequestStatus(db[RedisKey(key)].val = "in-process"),
          err |-> NilErr]

\* Complete reporting success without writing the record.
redisStorageCompleteSkipped(db, key, fail) ==
    [err |-> NilErr, db |-> db]

redisStorageComplete(db, key, fail) ==
    IF fail THEN [err |-> ErrUpdate, db |-> db]
    ELSE [err |-> NilErr, db |-> SetKeepTTL(db, RedisKey(key), "done")]

\* --------------------------------------------------------------------- state

VARIABLES
    backend,        \* which Storage the state was built with
    storage,        \* memoryStorage.storage
    redis,          \* the Redis server's keyspace
    pc,             \* where each request is in Verify's closure
    idempotencyKey, \* the request's Idempotency-Key header
    status,         \* the request's result of Get
    getErr,         \* the request's error result of Get
    addErr,         \* the request's result of Add
    completeErr,    \* the request's result of Complete
    mu,             \* memoryStorage.mu
    trace,          \* the calls the request has made so far, in order
    completed,      \* history: the keys for which a Complete has succeeded
    expired,        \* history: the keys whose record Redis has expired
    startView,      \* history: what the store held when the request arrived:
                    \*   status, completed: of the request's key;
                    \*   nonEmpty: for a request without a key, whether the
                    \*   store held any record
                    \*   aborted: whether a request that had claimed the
                    \*   key had died before completing it; failed: whether
                    \*   a Complete of the key had failed
    addView,        \* history: what the store held when the request called Add
    lastCall        \* history: the last direct call of a store method

vars == <<backend, storage, redis, pc, idempotencyKey, status, getErr, addErr,
          completeErr, mu, trace, completed, expired, startView, addView,
          lastCall>>

Backends == {"memory", "redis", "incomplete"}

\* ----------------------------------------------------- the Storage interface

\* s.storage.Get / Add / Complete on the store the state was built with.
\* Each returns the call's result and the two stores as the call leaves them.
StorageGet(key, fail) ==
    IF backend = "redis" THEN redisStorageGet(redis, key, fail)
    ELSE memoryStorageGet(storage, key)

StorageAdd(key, fail) ==
    IF backend = "redis"
    THEN LET r == redisStorageAdd(redis, key, fail)
         IN  [err |-> r.err, m |-> storage, db |-> r.db]
    ELSE LET r == memoryStorageAdd(storage, key)
         IN  [err |-> r.err, m |-> r.m, db |-> redis]

StorageComplete(key, fail) ==
    IF backend = "redis"
    THEN LET r == redisStorageComplete(redis, key, fail)
         IN  [err |-> r.err, m |-> storage, db |-> r.db]
    ELSE IF backend = "incomplete"
    THEN LET r == incompleteStorageComplete(storage, key)
         IN  [err |-> r.err, m |-> r.m, db |-> redis]
    ELSE LET r == memoryStorageComplete(storage, key)
         IN  [err |-> r.err, m |-> r.m, db |-> redis]

\* Whether the store's method op takes memoryStorage.mu: the methods of
\* memoryStorage do, incompleteStorage's own Complete and redisStorage do not.
TakesLock(op) ==
    backend = "memory" \/ (backend = "incomplete" /\ op # "Complete")

\* The method op can be entered, and the lock as the method leaves it.
CanEnter(op) == TakesLock(op) => mu = Free
LockAfter(op) == IF TakesLock(op) THEN Unlock(Lock(mu)) ELSE mu

\* The status of a key's record as a successful Get would report it now.
Absent == "absent"
InProcess == "InProcess"
Completed == "Completed"
View(key) ==
    LET s == StorageGet(key, FALSE).status
    IN  IF s.nil THEN Absent ELSE IF s.InProcess THEN InProcess ELSE Completed

\* -------------------------------------------------------------- state.Verify

\* The calls a request makes: the store's operations, the wrapped handler
\* (next.ServeHTTP), the restorer, and the error responder with its status.
Ev(op) == [op |-> op, code |-> 0]
ErrResponder(code) == [op |-> "errResponder", code |-> code]

\* The header check left out.
KeyMissingNever(key) == FALSE

\* if idempotencyKey == ""
KeyMissing(key) == key = NoHeader

\* The InProcess test left out: every found record is restored.
AfterGetNoConflict(st, err) ==
    IF err # NilErr THEN "respond500"
    ELSE IF st.nil THEN "add"
    ELSE "restore"

\* The branch Verify takes on Get's result.
AfterGet(st, err) ==
    IF IsErr(err) THEN "respond500"
    ELSE IF st.nil THEN "add"
    ELSE IF st.InProcess THEN "respond409"
    ELSE "restore"

\* Add's error ignored.
AfterAddIgnoresErr(err) == "next"

\* The branch Verify takes on Add's result.
AfterAdd(err) == IF IsErr(err) THEN "respond500" ELSE "next"

\* The error responder called after every Complete.
AfterCompleteAlwaysResponds(err) == "respond500"

\* Complete's error dropped instead of reported.
AfterCompleteIgnoresErr(err) == "return"

\* The branch Verify takes on Complete's result.
AfterComplete(err) == IF IsErr(err) THEN "respond500" ELSE "return"

\* No method of the store has been called directly yet.
NoCall ==
    [op |-> "none", key |-> NoHeader, before |-> Absent, got |-> NilStatus,
     err |-> NilErr, n |-> 0]

InitWith(b) ==
    /\ backend = b
    /\ storage = NewMemoryStorage
    /\ redis = EmptyRedis
    /\ pc = [r \in Reqs |-> "idle"]
    /\ idempotencyKey = [r \in Reqs |-> NoHeader]
    /\ status = [r \in Reqs |-> NilStatus]
    /\ getErr = [r \in Reqs |-> NilErr]
    /\ addErr = [r \in Reqs |-> NilErr]
    /\ completeErr = [r \in Reqs |-> NilErr]
    /\ mu = Free
    /\ lastCall = NoCall
    /\ trace = [r \in Reqs |-> <<>>]
    /\ completed = {}
    /\ expired = {}
    /\ startView = [r \in Reqs |->
                       [status |-> Absent, completed |-> FALSE, nonEmpty |-> FALSE,
                        aborted |-> FALSE, failed |-> FALSE]]
    /\ addView = [r \in Reqs |-> "none"]

Init == \E b \in Backends : InitWith(b)

\* A request arrives (requests are numbered in their order of arrival) and
\* Verify runs up to and including its Get: the header is read, and without a
\* key the request is answered 400; otherwise
\* status, err := s.storage.Get(ctx, idempotencyKey) and the branch on it.
\* Reading the header touches nothing shared, so arrival and Get are one step.
Arrive(r, key, fail) ==
    /\ pc[r] = "idle"
    /\ \A q \in Reqs : q < r => pc[q] # "idle"
    /\ \A i, j \in DOMAIN KeyOrder :
          (key = KeyOrder[j] /\ i < j) => \E q \in Reqs : idempotencyKey[q] = KeyOrder[i]
    /\ idempotencyKey' = [idempotencyKey EXCEPT ![r] = key]
    /\ startView' = [startView EXCEPT ![r] =
            IF key = NoHeader
            THEN [status |-> Absent, completed |-> FALSE,
                  nonEmpty |-> \E k \in Keys : View(k) # Absent,
                  aborted |-> FALSE, failed |-> FALSE]
            ELSE [status |-> View(key), completed |-> key \in completed,
                  nonEmpty |-> FALSE,
                  aborted |-> \E q \in Reqs :
                                 pc[q] = "aborted" /\ idempotencyKey[q] = key,
                  failed |-> \E q \in Reqs :
                                 IsErr(completeErr[q]) /\ idempotencyKey[q] = key]]
    /\ IF KeyMissing(key)
       THEN /\ trace' = [trace EXCEPT ![r] = <<ErrResponder(StatusBadRequest)>>]
            /\ pc' = [pc EXCEPT ![r] = "done"]
            /\ UNCHANGED <<status, getErr, mu>>
       ELSE LET res == StorageGet(key, fail)
                br == AfterGet(res.status, res.err)
            IN  /\ CanEnter("Get")
                /\ mu' = LockAfter("Get")
                /\ status' = [status EXCEPT ![r] = res.status]
                /\ getErr' = [getErr EXCEPT ![r] = res.err]
                /\ trace' = [trace EXCEPT ![r] =
                       CASE br = "respond500" ->
                              <<Ev("Get"), ErrResponder(StatusInternalServerError)>>
                         [] br = "respond409" ->
                              <<Ev("Get"), ErrResponder(StatusConflict)>>
                         [] br = "restore" -> <<Ev("Get"), Ev("restorer")>>
                         [] OTHER -> <<Ev("Get")>>]
                /\ pc' = [pc EXCEPT ![r] = IF br = "add" THEN "add" ELSE "done"]
    /\ UNCHANGED <<backend, storage, redis, addErr, completeErr, completed,
                   expired, addView, lastCall>>

Get(r) == \E key \in Headers : Arrive(r, key, FALSE)
GetFail(r) == backend = "redis" /\ \E key \in Keys : Arrive(r, key, TRUE)

\* err = s.storage.Add(ctx, idempotencyKey); on success next.ServeHTTP(w, r)
\* is entered.
AddStep(r, fail) ==
    /\ pc[r] = "add"
    /\ CanEnter("Add")
    /\ mu' = LockAfter("Add")
    /\ LET res == StorageAdd(idempotencyKey[r], fail)
           br == AfterAdd(res.err)
       IN  /\ storage' = res.m
           /\ redis' = res.db
           /\ addErr' = [addErr EXCEPT ![r] = res.err]
           /\ trace' = [trace EXCEPT ![r] =
                  IF br = "respond500"
                  THEN @ \o <<Ev("Add"), ErrResponder(StatusInternalServerError)>>
                  ELSE @ \o <<Ev("Add"), Ev("next")>>]
           /\ pc' = [pc EXCEPT ![r] = IF br = "next" THEN "handler" ELSE "done"]
    /\ addView' = [addView EXCEPT ![r] = View(idempotencyKey[r])]
    /\ UNCHANGED <<backend, idempotencyKey, status, getErr, completeErr,
                   completed, expired, startView, lastCall>>

\* Add called again when it returned an error.
AddRetry(r) ==
    /\ pc[r] = "add"
    /\ CanEnter("Add")
    /\ mu' = LockAfter("Add")
    /\ LET res == StorageAdd(idempotencyKey[r], FALSE)
       IN  /\ storage' = res.m
           /\ redis' = res.db
           /\ addErr' = [addErr EXCEPT ![r] = res.err]
           /\ trace' = [trace EXCEPT ![r] =
                  IF IsErr(res.err) THEN @ \o <<Ev("Add")>>
                  ELSE @ \o <<Ev("Add"), Ev("next")>>]
           /\ pc' = [pc EXCEPT ![r] = IF IsErr(res.err) THEN "add" ELSE "handler"]
    /\ addView' = [addView EXCEPT ![r] = View(idempotencyKey[r])]
    /\ UNCHANGED <<backend, idempotencyKey, status, getErr, completeErr,
                   completed, expired, startView, lastCall>>

Add(r) == AddStep(r, FALSE)
AddFail(r) == backend = "redis" /\ AddStep(r, TRUE)

\* next.ServeHTTP(w, r) returns.
Serve(r) ==
    /\ pc[r] = "handler"
    /\ pc' = [pc EXCEPT ![r] = "complete"]
    /\ UNCHANGED <<backend, storage, redis, idempotencyKey, status, getErr,
                   addErr, completeErr, mu, trace, completed, expired,
                   startView, addView, lastCall>>

\* err = s.storage.Complete(ctx, idempotencyKey), reported when it fails.
CompleteStep(r, fail) ==
    /\ pc[r] = "complete"
    /\ CanEnter("Complete")
    /\ mu' = LockAfter("Complete")
    /\ LET res == StorageComplete(idempotencyKey[r], fail)
           br == AfterComplete(res.err)
       IN  /\ storage' = res.m
           /\ completeErr' = [completeErr EXCEPT ![r] = res.err]
           /\ redis' = res.db
           /\ trace' = [trace EXCEPT ![r] =
                  IF br = "respond500"
                  THEN @ \o <<Ev("Complete"), ErrResponder(StatusInternalServerError)>>
                  ELSE @ \o <<Ev("Complete")>>]
           /\ completed' = IF IsErr(res.err) THEN completed
                           ELSE completed \cup {idempotencyKey[r]}
    /\ pc' = [pc EXCEPT ![r] = "done"]
    /\ UNCHANGED <<backend, idempotencyKey, status, getErr, addErr, expired,
                   startView, addView, lastCall>>

Complete(r) == CompleteStep(r, FALSE)
CompleteFail(r) == backend = "redis" /\ CompleteStep(r, TRUE)

\* The request dies after its Add and before its Complete: the handler
\* panics (net/http ends the request's goroutine) or the serving process is
\* killed while the store lives on.  Verify has no deferred Complete, so
\* nothing more is called for the request.
Abort(r) ==
    /\ pc[r] \in {"handler", "complete"}
    /\ pc' = [pc EXCEPT ![r] = "aborted"]
    /\ UNCHANGED <<backend, storage, redis, idempotencyKey, status, getErr,
                   addErr, completeErr, mu, trace, completed, expired,
                   startView, addView, lastCall>>

\* Time passes on the Redis server.
Tick ==
    /\ backend = "redis"
    /\ \E k \in RedisKeys : redis[k].exists /\ redis[k].ttl > 0
    /\ redis' = RedisTick(redis)
    /\ expired' = expired \cup
            {k \in Keys : /\ redis[RedisKey(k)].exists
                          /\ ~RedisTick(redis)[RedisKey(k)].exists}
    /\ UNCHANGED <<backend, storage, pc, idempotencyKey, status, getErr, addErr,
                   completeErr, mu, trace, completed, startView, addView,
                   lastCall>>

Next ==
    \/ \E r \in Reqs : Get(r)
    \/ \E r \in Reqs : GetFail(r)
    \/ \E r \in Reqs : Add(r)
    \/ \E r \in Reqs : AddFail(r)
    \/ \E r \in Reqs : Serve(r)
    \/ \E r \in Reqs : Complete(r)
    \/ \E r \in Reqs : CompleteFail(r)
    \/ Tick

Spec == Init /\ [][Next]_vars

\* The in-memory store alone: it has no expiry and its calls never fail.
NextMemory ==
    \/ \E r \in Reqs : Get(r)
    \/ \E r \in Reqs : Add(r)
    \/ \E r \in Reqs : Serve(r)
    \/ \E r \in Reqs : Complete(r)

SpecMemory == InitWith("memory") /\ [][NextMemory]_vars

\* The in-memory store with the scheduling Go gives the requests: each
\* request runs in a goroutine of its own, so a store call that can be made is
\* made, and so is an arrival.  Handlers return, except possibly that of the
\* first request.
StuckHandler == 1

SpecMemoryFair ==
    /\ SpecMemory
    /\ \A r \in Reqs :
          /\ WF_vars(Get(r))
          /\ WF_vars(Add(r))
          /\ WF_vars(Complete(r))
          /\ r # StuckHandler => WF_vars(Serve(r))

\* The Redis store alone.
SpecRedis == InitWith("redis") /\ [][Next]_vars

\* Requests in strict sequence, against a shipped store whose calls succeed:
\* a request arrives only when no other request is under way.
GetSeq(r) ==
    /\ \A q \in Reqs : pc[q] \in {"idle", "done"}
    /\ Get(r)

NextSeq ==
    \/ \E r \in Reqs : GetSeq(r)
    \/ \E r \in Reqs : Add(r)
    \/ \E r \in Reqs : Serve(r)
    \/ \E r \in Reqs : Complete(r)
    \/ Tick

SpecSeq == (InitWith("memory") \/ InitWith("redis")) /\ [][NextSeq]_vars

\* The store's methods called directly, as any holder of the Storage may call
\* them: with any key, in any order, whatever record the key has.
StoreCall(op, k, fail) ==
    /\ lastCall.n < MaxCalls
    /\ fail => backend = "redis"
    /\ CanEnter(op)
    /\ mu' = LockAfter(op)
    /\ LET got == StorageGet(k, fail)
           res == CASE op = "Add" -> StorageAdd(k, fail)
                    [] op = "Complete" -> StorageComplete(k, fail)
                    [] OTHER -> [err |-> got.err, m |-> storage, db |-> redis]
       IN  /\ storage' = res.m
           /\ redis' = res.db
           /\ lastCall' = [op |-> op, key |-> k, before |-> View(k),
                           got |-> IF op = "Get" THEN got.status ELSE NilStatus,
                           err |-> res.err, n |-> lastCall.n + 1]
    /\ UNCHANGED <<backend, pc, idempotencyKey, status, getErr, addErr,
                   completeErr, trace, completed, expired, startView, addView>>

CallAdd == \E k \in Keys : StoreCall("Add", k, FALSE)
CallGet == \E k \in Keys : StoreCall("Get", k, FALSE)
CallComplete == \E k \in Keys : StoreCall("Complete", k, FALSE)
CallFail == \E op \in {"Add", "Get", "Complete"} : \E k \in Keys : StoreCall(op, k, TRUE)

NextStore ==
    \/ CallAdd
    \/ CallGet
    \/ CallComplete
    \/ CallFail
    \/ Tick

SpecStore == (InitWith("memory") \/ InitWith("redis")) /\ [][NextStore]_vars

\* The shipped stores, their calls succeeding, with requests that may die
\* between Add and Complete.
NextAbort ==
    \/ \E r \in Reqs : Get(r)
    \/ \E r \in Reqs : Add(r)
    \/ \E r \in Reqs : Serve(r)
    \/ \E r \in Reqs : Complete(r)
    \/ \E r \in Reqs : Abort(r)
    \/ Tick

SpecAbort == (InitWith("memory") \/ InitWith("redis")) /\ [][NextAbort]_vars

\* ------------------------------------------------------------ observations

\* Request r has made the call op.
Ran(r, op) == \E i \in DOMAIN trace[r] : trace[r][i].op = op

\* How many times request r has made the call op.
Calls(r, op) == Cardinality({i \in DOMAIN trace[r] : trace[r][i].op = op})

\* The requests carrying key k that have made the call op.
RanWith(k, op) == {r \in Reqs : idempotencyKey[r] = k /\ Ran(r, op)}

\* Request r has called Add and Add returned nil.
Claimed(r) == addView[r] # "none" /\ ~IsErr(addErr[r])

\* ------------------------------------------------------------------- claims

\* C1: for every key, the wrapped handler (next.ServeHTTP) is executed by at
\* most one of the requests carrying that key, in every interleaving.
C1_HandlerAtMostOnce ==
    \A k \in Keys : Cardinality(RanWith(k, "next")) <= 1

\* C2: Add reports success only to a caller that found the key absent at the
\* moment of its Add (check and insert are one step), so of the claim
\* attempts on an absent key exactly one succeeds.
C2_AddChecksAbsence ==
    \A r \in Reqs : Claimed(r) => addView[r] = Absent

\* C3: in every step every key's status stays as it is or moves
\* absent -> InProcess -> Completed; a record leaves Completed or InProcess
\* otherwise only by expiring (to absent).
StatusMoves ==
    {<<Absent, InProcess>>, <<InProcess, Completed>>,
     <<InProcess, Absent>>, <<Completed, Absent>>}
C3_StatusOnlyForward ==
    [][\A k \in Keys : View(k)' = View(k) \/ <<View(k), View(k)'>> \in StatusMoves]_vars

\* C4: a finished request that arrived after a Complete for its key had
\* succeeded was routed to the restorer and did not execute the handler.
C4_AfterCompleteRestorer ==
    \A r \in Reqs :
        (pc[r] = "done" /\ startView[r].completed)
            => (Ran(r, "restorer") /\ ~Ran(r, "next"))

\* The calls made with key k, over all requests: (request, position) pairs.
Invocations(k, op) ==
    Cardinality({x \in UNION {{<<r, i>> : i \in DOMAIN trace[r]} : r \in Reqs} :
                    idempotencyKey[x[1]] = k /\ trace[x[1]][x[2]].op = op})

\* The requests that have arrived with key k, and whether all have finished.
WithKey(k) == {r \in Reqs : pc[r] # "idle" /\ idempotencyKey[r] = k}
AllDone(k) == \A r \in WithKey(k) : pc[r] = "done"

\* C5 as stated: N >= 1 requests with one key, in strict sequence, against an
\* initially empty store whose calls succeed, execute the handler exactly
\* once and the restorer exactly N-1 times.
C5_SequentialAsStated ==
    \A k \in Keys :
        (WithKey(k) # {} /\ AllDone(k))
            => /\ Invocations(k, "next") = 1
               /\ Invocations(k, "restorer") = Cardinality(WithKey(k)) - 1

\* C5 (amended): the same, for a key whose record has not expired in between;
\* the handler ran on the first of the requests, the restorer on each later one.
C5_SequentialNoExpiry ==
    \A k \in Keys :
        (WithKey(k) # {} /\ AllDone(k) /\ k \notin expired)
            => /\ Invocations(k, "next") = 1
               /\ Invocations(k, "restorer") = Cardinality(WithKey(k)) - 1
               /\ \A r \in WithKey(k) :
                     IF \A q \in WithKey(k) : r <= q
                     THEN Calls(r, "next") = 1 /\ Calls(r, "restorer") = 0
                     ELSE Calls(r, "next") = 0 /\ Calls(r, "restorer") = 1

\* Every request carried the same key, all have finished, nothing expired.
C5_Witness ==
    \E k \in Keys :
        /\ WithKey(k) = Reqs
        /\ AllDone(k)
        /\ k \notin expired
        /\ Invocations(k, "restorer") = MaxReq - 1

\* C6: a request whose Get found the key InProcess has made exactly two
\* calls, Get and the error responder with 409 (no Add, no handler, no
\* Complete), and has returned; with the store whose Complete does nothing,
\* every request that arrived when the key already had a record got 409.
ConflictTrace == <<Ev("Get"), ErrResponder(StatusConflict)>>
C6_InProcessConflict ==
    /\ \A r \in Reqs :
          status[r] = RequestStatus(TRUE) => (pc[r] = "done" /\ trace[r] = ConflictTrace)
    /\ backend = "incomplete" =>
          \A r \in Reqs :
              (pc[r] = "done" /\ startView[r].status # Absent) => trace[r] = ConflictTrace

\* With the do-nothing Complete: the first request has completed and a later
\* request with its key was answered 409.
C6_Witness ==
    /\ backend = "incomplete"
    /\ \E q, r \in Reqs :
          /\ q < r
          /\ idempotencyKey[q] = idempotencyKey[r]
          /\ Ran(q, "Complete")
          /\ startView[r].status = InProcess
          /\ trace[r] = ConflictTrace

\* C7: the step in which a request arrives without a key answers 400 through
\* the error responder, ends the request and leaves both stores as they were,
\* whatever they hold; a finished request makes no further call.
C7_NoKeyBadRequest ==
    [][\A r \in Reqs :
          /\ (pc[r] = "idle" /\ pc'[r] # "idle" /\ idempotencyKey'[r] = NoHeader)
                => /\ pc'[r] = "done"
                   /\ trace'[r] = <<ErrResponder(StatusBadRequest)>>
                   /\ storage' = storage
                   /\ redis' = redis
          /\ pc[r] = "done" => (pc'[r] = "done" /\ trace'[r] = trace[r])]_vars

\* A request without a key was answered 400 while the store held a record.
C7_Witness ==
    \E r \in Reqs :
        /\ idempotencyKey[r] = NoHeader
        /\ trace[r] = <<ErrResponder(StatusBadRequest)>>
        /\ startView[r].nonEmpty

\* C8: a request whose Get returned an error has called Get once and the
\* error responder with 500 and nothing else; one whose Add returned an
\* error has called Get, Add once and the error responder with 500 and
\* nothing else (no handler, no restorer, no Complete, no second attempt).
C8_StorageError500 ==
    \A r \in Reqs :
        /\ getErr[r] # NilErr =>
              /\ pc[r] = "done"
              /\ trace[r] = <<Ev("Get"), ErrResponder(StatusInternalServerError)>>
        /\ addErr[r] # NilErr =>
              /\ pc[r] = "done"
              /\ trace[r] = <<Ev("Get"), Ev("Add"),
                              ErrResponder(StatusInternalServerError)>>

\* One request's Get failed and another's Add failed on the backend.
C8_Witness ==
    \E q, r \in Reqs : getErr[q] = ErrGet /\ addErr[r] = ErrSet

\* Request r saw the key absent in Get and its Add reached the store when
\* another request had claimed the key.
LostRace(r) == addView[r] \in {InProcess, Completed} /\ addErr[r] # ErrSet

\* C9: a request that lost the claim race is answered as the found state:
\* 409 when the key was InProcess, the restorer when it was Completed; it
\* gets no 500 and does not execute the handler.
C9_LostRaceAsFound ==
    \A r \in Reqs :
        LostRace(r) =>
            /\ ~Ran(r, "next")
            /\ \A i \in DOMAIN trace[r] : trace[r][i] # ErrResponder(StatusInternalServerError)
            /\ addView[r] = InProcess =>
                  \E i \in DOMAIN trace[r] : trace[r][i] = ErrResponder(StatusConflict)
            /\ addView[r] = Completed => Ran(r, "restorer")

\* C10: redisStorage.Add on a key that exists and redisStorage.Add on a
\* failing backend never give the caller results of the same outcome class.
C10_ExistsDistinctFromFailure ==
    \A q, r \in Reqs :
        (addErr[q] = ErrExists /\ addErr[r] = ErrSet)
            => OutcomeClass(addErr[q]) # OutcomeClass(addErr[r])

\* ------------------------------------------------------------------- C11

\* The calls a request that claimed its key makes, in their order.
ClaimedPath == <<Ev("Get"), Ev("Add"), Ev("next"), Ev("Complete")>>

IsPrefix(s, t) == Len(s) <= Len(t) /\ SubSeq(t, 1, Len(s)) = s

\* The request's step is a Complete that returned nil.
CompleteSucceeds(r) ==
    pc[r] = "complete" /\ pc'[r] = "done" /\ ~IsErr(completeErr'[r])

ShippedStore == backend \in {"memory", "redis"}

C11_Order ==
    \A r \in Reqs :
        /\ Claimed(r) <=> Ran(r, "next")
        /\ Ran(r, "next") => IsPrefix(SubSeq(ClaimedPath, 1, 3), trace[r])
        /\ Ran(r, "Complete") =>
               /\ Claimed(r)
               /\ IsPrefix(ClaimedPath, trace[r])
               /\ pc[r] = "done"
        /\ pc[r] = "handler" => trace[r] = SubSeq(ClaimedPath, 1, 3)
        /\ pc[r] = "complete" => trace[r] = SubSeq(ClaimedPath, 1, 3)
        /\ (pc[r] = "done" /\ Ran(r, "next")) => Ran(r, "Complete")

\* C11: a request whose Add succeeded enters the handler and, once the handler
\* has returned, calls Complete; Complete is called only by a request that
\* claimed the key itself, after its handler, and nothing else precedes it
\* but the request's own Get and Add; a Complete that succeeds on a shipped
\* store leaves the key Completed, not InProcess.
C11_ClaimServeComplete ==
    /\ []C11_Order
    /\ [][\A r \in Reqs :
             (CompleteSucceeds(r) /\ ShippedStore) =>
                 View(idempotencyKey[r])' = Completed]_vars

C11_Witness ==
    \E r \in Reqs :
        /\ backend = "redis"
        /\ pc[r] = "done"
        /\ trace[r] = ClaimedPath
        /\ completeErr[r] = NilErr
        /\ View(idempotencyKey[r]) = Completed

\* ------------------------------------------------------------------- C12

Err500 == ErrResponder(StatusInternalServerError)

\* The request's step is a Complete that returned an error.
CompleteFails(r) == pc[r] = "complete" /\ IsErr(completeErr'[r])

\* Request q arrives in this step with the key of request r and its Get
\* returns without error.
ArrivesWithKeyOf(q, r) ==
    /\ pc[q] = "idle"
    /\ pc'[q] # "idle"
    /\ idempotencyKey'[q] = idempotencyKey[r]
    /\ ~IsErr(getErr'[q])

C12_AfterFailure ==
    \A r \in Reqs :
        IsErr(completeErr[r]) =>
            /\ pc[r] = "done"
            /\ trace[r] = ClaimedPath \o <<Err500>>
            /\ idempotencyKey[r] \notin expired =>
                   View(idempotencyKey[r]) = InProcess

\* C12: a Complete that fails after the handler ran is reported once, with
\* status 500, and ends the request: its calls are Get, Add, next, Complete,
\* errResponder(500) and no more; the failing step leaves the store as it
\* was, the record is InProcess unless it has expired, and a request that
\* arrives with that key afterwards, the record not having expired, is
\* answered 409.
C12_CompleteFailure ==
    /\ []C12_AfterFailure
    /\ [][\A r \in Reqs :
             CompleteFails(r) =>
                 /\ redis' = redis
                 /\ storage' = storage
                 /\ trace'[r] = trace[r] \o <<Ev("Complete"), Err500>>
                 /\ pc'[r] = "done"]_vars
    /\ [][\A r, q \in Reqs :
             (/\ IsErr(completeErr[r])
              /\ idempotencyKey[r] \notin expired
              /\ ArrivesWithKeyOf(q, r)) => trace'[q] = ConflictTrace]_vars

C12_Witness ==
    \E r, q \in Reqs :
        /\ completeErr[r] = ErrUpdate
        /\ idempotencyKey[q] = idempotencyKey[r]
        /\ idempotencyKey[r] \notin expired
        /\ startView[q].failed
        /\ startView[q].status = InProcess
        /\ trace[q] = ConflictTrace

\* ------------------------------------------------------------------- C13

\* The Redis record of a key and whether it will expire.
Record(k) == redis[RedisKey(k)]
Expires(k) == Record(k).exists /\ Record(k).ttl # NoTTL

\* C13: with the Redis store every Completed record still expires: Complete
\* has kept the time to live that Add gave the record.
C13_CompletedStillExpires ==
    backend = "redis" =>
        \A k \in Keys : View(k) = Completed => Expires(k)

\* ------------------------------------------------------------------- C14

\* The request is the next to arrive.
NextToArrive(r) == pc[r] = "idle" /\ \A q \in Reqs : q < r => pc[q] # "idle"

\* No request is kept from its next step, and no lock is held between the
\* store's calls, so none is held while a handler runs.
C14_StepsEnabled ==
    /\ mu = Free
    /\ \A r \in Reqs :
          /\ NextToArrive(r) => ENABLED Get(r)
          /\ pc[r] = "add" => ENABLED Add(r)
          /\ pc[r] = "handler" => ENABLED Serve(r)
          /\ pc[r] = "complete" => ENABLED Complete(r)

\* C14: whatever the other requests are doing, a request can take its next
\* step and no lock is held across a handler execution; a request whose key
\* differs from that of a request whose handler never returns reaches its
\* response.
C14_DistinctKeysNeverBlock ==
    /\ []C14_StepsEnabled
    /\ \A r \in Reqs \ {StuckHandler} :
          (pc[r] # "idle" /\ idempotencyKey[r] # idempotencyKey[StuckHandler])
              ~> (pc[r] = "done")

C14_Witness ==
    \E r \in Reqs :
        /\ pc[StuckHandler] = "handler"
        /\ startView[r].status = Absent
        /\ idempotencyKey[r] \in Keys \ {idempotencyKey[StuckHandler]}
        /\ pc[r] = "done"
        /\ trace[r] = ClaimedPath

\* ------------------------------------------------------------------- C15

\* A request that claimed the key k has died without completing it.
AbortedWith(k) == \E r \in Reqs : pc[r] = "aborted" /\ idempotencyKey[r] = k

\* C15: once the request that claimed a key has died between Add and
\* Complete, the key stays InProcess and every request that arrives with it
\* afterwards is answered 409, for as long as no expiry has removed the record
\* (with the in-memory store: for ever).
C15_AbortedStaysInProcess ==
    \A k \in Keys :
        (AbortedWith(k) /\ k \notin expired) =>
            /\ View(k) = InProcess
            /\ \A q \in Reqs :
                  (idempotencyKey[q] = k /\ startView[q].aborted) =>
                      trace[q] = ConflictTrace

\* ------------------------------------------------------------------- C16

\* The request arrived when a Completed record of its key had expired, and
\* its Get returned.
RetryAfterExpiry(r) ==
    /\ pc[r] # "idle"
    /\ idempotencyKey[r] \in Keys
    /\ startView[r].completed
    /\ startView[r].status = Absent
    /\ ~IsErr(getErr[r])

\* C16: with the Redis store a request that arrives after the Completed
\* record of its key has expired goes the way of a request with a new key: Get
\* reports no record, the request goes on to Add, and an Add that reaches the
\* server with the key still absent succeeds and the handler is entered.
C16_RetryAfterExpiryReruns ==
    \A r \in Reqs :
        RetryAfterExpiry(r) =>
            /\ status[r] = NilStatus
            /\ IsPrefix(<<Ev("Get")>>, trace[r])
            /\ pc[r] = "add" \/ IsPrefix(<<Ev("Get"), Ev("Add")>>, trace[r])
            /\ (addView[r] = Absent /\ addErr[r] # ErrSet) =>
                   /\ addErr[r] = NilErr
                   /\ IsPrefix(SubSeq(ClaimedPath, 1, 3), trace[r])

C16_Witness ==
    \E r, q \in Reqs :
        /\ backend = "redis"
        /\ r < q
        /\ idempotencyKey[q] = idempotencyKey[r]
        /\ trace[r] = ClaimedPath
        /\ RetryAfterExpiry(q)
        /\ addView[q] = Absent
        /\ Ran(q, "next")

\* ------------------------------------------------------------------- C17

StoreOps == {"Get", "Add", "Complete"}

\* C17: within one request each of Get, Add and Complete is called at most
\* once and the handler is entered at most once, whatever the store returned.
C17_NoInternalRetries ==
    \A r \in Reqs :
        /\ \A op \in StoreOps : Calls(r, op) <= 1
        /\ Calls(r, "next") <= 1

C17_Witness ==
    \E r, q \in Reqs :
        /\ pc[r] = "done" /\ pc[q] = "done"
        /\ getErr[r] = ErrGet \/ addErr[r] = ErrSet
        /\ addErr[q] = ErrExists
        /\ Calls(q, "Get") = 1 /\ Calls(q, "Add") = 1
        /\ \E p \in Reqs : completeErr[p] = ErrUpdate /\ Calls(p, "Complete") = 1

\* ------------------------------------------------------------------- C18

\* The calls that write the response: next.ServeHTTP, s.restorer,
\* s.errResponder.
WriterOps == {"next", "restorer", "errResponder"}
IsWriter(e) == e.op \in WriterOps
Writers(r) == SelectSeq(trace[r], IsWriter)

\* C18: a request that has ended has called exactly one of the handler, the
\* restorer and the error responder, except that a request whose Complete
\* failed has called the handler and then the error responder; no request
\* calls both the handler and the restorer, and none calls a writer more
\* often than that while it is under way.
C18_OneResponseWriter ==
    \A r \in Reqs :
        /\ pc[r] = "done" =>
               IF IsErr(completeErr[r])
               THEN Writers(r) = <<Ev("next"), Err500>>
               ELSE Len(Writers(r)) = 1
        /\ pc[r] # "done" => Len(Writers(r)) <= 1
        /\ ~(Ran(r, "next") /\ Ran(r, "restorer"))

C18_Witness ==
    /\ \E r \in Reqs : pc[r] = "done" /\ Writers(r) = <<Ev("next")>>
    /\ \E r \in Reqs : pc[r] = "done" /\ Writers(r) = <<Ev("restorer")>>
    /\ \E r \in Reqs : pc[r] = "done" /\ Writers(r) = <<Ev("next"), Err500>>

\* ------------------------------------------------------------------- C19

\* The requests with key k whose Get reported no record.
SawAbsent(k) ==
    {r \in Reqs : /\ pc[r] # "idle"
                  /\ idempotencyKey[r] = k
                  /\ startView[r].status = Absent
                  /\ ~IsErr(getErr[r])}

CalledAdd(r) == addView[r] # "none"
Winners(k) == {r \in SawAbsent(k) : Claimed(r)}
Losers(k) == {r \in SawAbsent(k) : CalledAdd(r) /\ IsErr(addErr[r])}

\* Several requests saw the key absent, all of them have called Add, and no
\* record of the key has expired.
RaceOver(k) ==
    /\ backend = "redis"
    /\ k \notin expired
    /\ Cardinality(SawAbsent(k)) >= 2
    /\ \A r \in SawAbsent(k) : CalledAdd(r)

LoserTrace == <<Ev("Get"), Ev("Add"), Err500>>

AddFails(r) == pc[r] = "add" /\ IsErr(addErr'[r])

CompleteCall(k) ==
    /\ lastCall'.n = lastCall.n + 1
    /\ lastCall'.op = "Complete"
    /\ lastCall'.key = k
    /\ ~IsErr(lastCall'.err)

\* The Redis record of k has no time to live.
Immortal(k) == backend = "redis" /\ Record(k).exists /\ Record(k).ttl = NoTTL

\* C20: a Complete that returns nil leaves the key Completed whatever record
\* it had, also none; on a key without a record the Redis store creates a
\* record without a time to live, and such a record stays Completed for ever.
C20_CompleteFromAnyState ==
    /\ [][\A k \in Keys :
             CompleteCall(k) =>
                 /\ View(k)' = Completed
                 /\ (backend = "redis" /\ View(k) = Absent) => Immortal(k)'
                 /\ (backend = "redis" /\ View(k) # Absent) =>
                        Record(k)'.ttl = Record(k).ttl]_vars
    /\ [][\A k \in Keys :
             (Immortal(k) /\ View(k) = Completed) =>
                 (Immortal(k)' /\ View(k)' = Completed)]_vars

C20_Witness ==
    \E k \in Keys :
        /\ lastCall.op = "Complete"
        /\ lastCall.key = k
        /\ lastCall.before = Absent
        /\ k \in expired
        /\ Immortal(k)
        /\ View(k) = Completed

====
